---- MODULE Spec2Model ----
(***************************************************************************)
(* Model of build_quality_check.py: CheckBuildStatus, the build-quality    *)
(* gate that polls the Rollbar Versions API.                               *)
(*                                                                         *)
(* Python exceptions are modelled by their class name in an "exc" field;   *)
(* NoExc means that the call returned normally.  time.sleep is modelled by *)
(* counters (retry_sleeps, check_sleeps), the remote service by a          *)
(* nondeterministic choice among Transport outcomes.                       *)
(***************************************************************************)
EXTENDS Integers, Sequences, FiniteSets

VARIABLES
    access_token,    \* self.access_token (a string: a sequence of characters)
    code_version,    \* self.code_version (a string)
    environment,     \* self.environment (a string)
    check_seconds,   \* self.check_seconds
    validation_error, \* the field named by the ValueError of validate_input,
                     \* NoExc when it raised nothing
    item_threshold,  \* self.item_threshold
    num_checks,      \* self.num_checks
    item_totals,     \* self.item_totals (None until the first parsed body)
    pc,              \* position inside determine_build_quality; at "done" it
                     \* has returned status
    i,               \* number of check iterations started (loop variable + 1)
    status,          \* local variable status of determine_build_quality
    j,               \* loop variable of the retry loop of get_version_json_data
    resp,            \* local variable resp of get_version_json_data
    web_resp_text,   \* local variable web_resp_text of get_version_status
    outcomes,        \* history: how every started check ended
    attempts,        \* history: status codes of the HTTP attempts of the current fetch
    retry_sleeps,    \* history: time.sleep(3) calls of the current fetch
    retry_sleep_seconds, \* history: seconds slept by them
    check_sleeps,    \* history: time.sleep(check_seconds) calls of the run
    http_calls       \* history: requests.get calls of the run

\* the arguments of the constructor other than item_threshold and num_checks,
\* and what validate_input made of the six
args == <<access_token, code_version, environment, check_seconds,
          validation_error>>

vars == <<args, item_threshold, num_checks, item_totals, pc, i, status, j, resp,
          web_resp_text, outcomes, attempts, retry_sleeps, retry_sleep_seconds,
          check_sleeps, http_calls>>

----------------------------------------------------------------------------
(* Bounds of the model *)

MaxChecks == 3      \* num_checks ranges over 1..MaxChecks
MaxThreshold == 1   \* item_threshold ranges over 0..MaxThreshold
MaxCount == 1       \* every error / critical count of a body is in 0..MaxCount
MaxTotal == 3       \* totals given to calculate_status alone are in 0..MaxTotal
MaxMainChecks == 2  \* the whole program: --checks ranges over 0..MaxMainChecks
MaxDelta == 1       \* validate_input alone: lengths and numbers up to MaxDelta
                    \* away from the limits 32, 200, 0 and 1

----------------------------------------------------------------------------
(* Class constants of CheckBuildStatus *)

SUCCESS == 0
NEW_ITEMS == 1
REACTIVATED_ITEMS == 2
NEW_AND_REACTIVATED_ITEMS == NEW_ITEMS + REACTIVATED_ITEMS
GENERAL_ERROR == 100
CHECK_BUILD_ERROR == 101

\* range(0, REQUEST_RETRIES + 1)
REQUEST_RETRIES_plus_one == 3 + 1

REQUEST_RETRIES == 3

HTTP_OK == 200

\* entry of the attempts history for an attempt whose requests.get raised
\* (resp stays None, there is no status code)
NoResponse == 0

----------------------------------------------------------------------------
(* Python values *)

None == [none |-> TRUE]

NoExc == "none"

\* class CheckBuildException(Exception)
CheckBuildException == "CheckBuildException"

\* Exceptions raised by the code or its libraries that are not a
\* CheckBuildException: resp.text on None, json.loads, a missing dict key.
AttributeError == "AttributeError"
JSONDecodeError == "JSONDecodeError"
KeyError == "KeyError"

Has(d, k) == k \in DOMAIN d

----------------------------------------------------------------------------
(* Response bodies.  A body is a text that json.loads either rejects or    *)
(* turns into a document (nested dicts, modelled as records).              *)

Stats(e, c) == [error |-> e, critical |-> c]

Counts == 0..MaxCount

NotJsonText == [is_json |-> FALSE, doc |-> [message |-> 0]]

Json(d) == [is_json |-> TRUE, doc |-> d]

ItemStatsDoc(item_stats) == [result |-> [item_stats |-> item_stats]]

\* The bodies the modelled service sends: the four counts of new and
\* reactivated range over Counts independently; repeated and resolved reuse
\* them crosswise, so that the four totals of a body differ from each other.
WellFormedTexts ==
    { Json(ItemStatsDoc([new |-> Stats(ne, nc),
                         reactivated |-> Stats(re, rc),
                         repeated |-> Stats(nc, re),
                         resolved |-> Stats(rc, ne)])) :
        ne \in Counts, nc \in Counts, re \in Counts, rc \in Counts }

MalformedTexts ==
    { NotJsonText,
      Json([err |-> 1]),
      Json([result |-> [version |-> 1]]),
      Json(ItemStatsDoc([new |-> Stats(0, 0), reactivated |-> Stats(0, 0),
                         repeated |-> Stats(0, 0)])),
      Json(ItemStatsDoc([new |-> [error |-> 0], reactivated |-> Stats(0, 0),
                         repeated |-> Stats(0, 0), resolved |-> Stats(0, 0)])) }

Texts == WellFormedTexts \cup MalformedTexts

Response(code, text) == [status_code |-> code, text |-> text]

NonOkCodes == {204, 503}

Responses ==
    { Response(HTTP_OK, t) : t \in Texts } \cup
    { Response(c, NotJsonText) : c \in NonOkCodes }

\* What one requests.get call can do: raise, or return a response.
Transport ==
    { [raises |-> TRUE, resp |-> None] } \cup
    { [raises |-> FALSE, resp |-> r] : r \in Responses }

----------------------------------------------------------------------------
(* InputValidator.  A Python str is a sequence of one-character strings;   *)
(* the arguments come from argparse (type=str, type=int), so that every    *)
(* isinstance test of validate_input is true.                              *)

AlnumChars == {"a", "Z", "7"}

SeparatorChars == {".", "-", "_"}

Fill(n, c) == [k \in 1..n |-> c]

\* str.isalnum: every character is alphanumeric and there is at least one
isalnum(s) == Len(s) > 0 /\ \A k \in 1..Len(s) : s[k] \in AlnumChars

\* str.replace(c, '')
replace(s, c) == SelectSeq(s, LAMBDA x : x # c)

\* the comment above the test says 36
ACCESS_TOKEN_LEN_36 == 30 + 6

\* str_len != 32
ACCESS_TOKEN_LEN == 32

\* str_len > 200
MAX_STR_LEN == 200

\* validate_input: the field named by the ValueError it raises, or NoExc
validate_input(at, cv, env, it, nc, cs) ==
    IF ~isalnum(at) \/ Len(at) # ACCESS_TOKEN_LEN THEN "access_token"
    ELSE IF Len(cv) > MAX_STR_LEN THEN "code_version"
    ELSE LET stripped == replace(replace(replace(env, "."), "-"), "_")
         IN  IF ~isalnum(stripped) \/ Len(stripped) > MAX_STR_LEN
             THEN "environment"
             ELSE IF it < 0 THEN "item_threshold"
             ELSE IF nc < 1 THEN "num_checks"
             ELSE IF cs < 1 THEN "check_seconds"
             ELSE NoExc

\* a configuration that passes validate_input, used where the strings do
\* not matter
DefaultToken == Fill(ACCESS_TOKEN_LEN, "a")
DefaultCodeVersion == <<"7", "a", "Z">>
DefaultEnvironment == <<"a", "-", "7">>

DefaultArgs ==
    /\ access_token = DefaultToken
    /\ code_version = DefaultCodeVersion
    /\ environment = DefaultEnvironment
    /\ check_seconds = 1
    /\ validation_error = NoExc

----------------------------------------------------------------------------
(* ItemTotalsCalculator *)

\* a count of every level at or above warning
get_error_and_higher_count_warning(item_stats) ==
    IF Has(item_stats, "error") /\ Has(item_stats, "critical")
    THEN [exc |-> NoExc,
          value |-> item_stats.error + item_stats.critical
                    + IF Has(item_stats, "warning") THEN item_stats.warning ELSE 0]
    ELSE [exc |-> KeyError, value |-> 0]

\* get_error_and_higher_count: item_stats['error'] + item_stats['critical']
get_error_and_higher_count(item_stats) ==
    IF Has(item_stats, "error") /\ Has(item_stats, "critical")
    THEN [exc |-> NoExc, value |-> item_stats.error + item_stats.critical]
    ELSE [exc |-> KeyError, value |-> 0]

\* json.loads
json_loads(text) ==
    IF text.is_json THEN [exc |-> NoExc, value |-> text.doc]
    ELSE [exc |-> JSONDecodeError, value |-> None]

Categories == <<"new", "reactivated", "repeated", "resolved">>

\* calculate_item_totals: the new value of self.item_totals, or the exception
calculate_item_totals(text) ==
    LET Failed(e) == [exc |-> e, totals |-> None]
        json_data == json_loads(text)
    IN  IF json_data.exc # NoExc THEN Failed(json_data.exc)
        ELSE IF ~Has(json_data.value, "result") THEN Failed(KeyError)
        ELSE IF ~Has(json_data.value.result, "item_stats") THEN Failed(KeyError)
        ELSE LET item_stats == json_data.value.result.item_stats
             IN  IF \E k \in 1..4 : ~Has(item_stats, Categories[k])
                 THEN Failed(KeyError)
                 ELSE LET n  == get_error_and_higher_count(item_stats.new)
                          ra == get_error_and_higher_count(item_stats.reactivated)
                          rp == get_error_and_higher_count(item_stats.repeated)
                          rs == get_error_and_higher_count(item_stats.resolved)
                      IN  IF n.exc # NoExc THEN Failed(n.exc)
                          ELSE IF ra.exc # NoExc THEN Failed(ra.exc)
                          ELSE IF rp.exc # NoExc THEN Failed(rp.exc)
                          ELSE IF rs.exc # NoExc THEN Failed(rs.exc)
                          ELSE [exc |-> NoExc,
                                totals |-> [new |-> n.value,
                                            reactivated |-> ra.value,
                                            repeated |-> rp.value,
                                            resolved |-> rs.value]]

----------------------------------------------------------------------------
(* StatusEvaluator *)

\* >= where the code has >
calculate_status_ge(totals, threshold) ==
    LET total == totals.new + totals.reactivated
        s0 == SUCCESS
        s1 == IF total >= threshold /\ totals.new > 0 THEN s0 + NEW_ITEMS ELSE s0
        s2 == IF total >= threshold /\ totals.reactivated > 0
              THEN s1 + REACTIVATED_ITEMS ELSE s1
    IN  s2

\* each count compared with the threshold on its own
calculate_status_own(totals, threshold) ==
    LET s0 == SUCCESS
        s1 == IF totals.new > threshold THEN s0 + NEW_ITEMS ELSE s0
        s2 == IF totals.reactivated > threshold
              THEN s1 + REACTIVATED_ITEMS ELSE s1
    IN  s2

\* calculate_status: status starts at SUCCESS and the two flags are added
calculate_status(totals, threshold) ==
    LET total == totals.new + totals.reactivated
        s0 == SUCCESS
        s1 == IF total > threshold /\ totals.new > 0 THEN s0 + NEW_ITEMS ELSE s0
        s2 == IF total > threshold /\ totals.reactivated > 0
              THEN s1 + REACTIVATED_ITEMS ELSE s1
    IN  s2

----------------------------------------------------------------------------
(* VersionStatsClient *)

\* make_versions_api_call: requests.get inside try/except, then the three
\* print calls.  When requests.get raised, resp is still None and
\* print(resp.text) raises AttributeError out of the method.
make_versions_api_call(outcome) ==
    LET r == IF outcome.raises THEN None ELSE outcome.resp
    IN  IF r = None THEN [exc |-> AttributeError, resp |-> None]
        ELSE [exc |-> NoExc, resp |-> r]

\* bool(resp): None is falsy, a requests.Response is truthy unless its
\* status code is a 4xx or 5xx one
resp_bool(r) ==
    IF r = None THEN FALSE ELSE ~(r.status_code >= 400 /\ r.status_code < 600)

\* the "not" of "not resp" dropped
needs_retry_truthy(r) == resp_bool(r) \/ r.status_code # HTTP_OK

\* the condition of the retry loop: not resp or resp.status_code != 200
needs_retry(r) == ~resp_bool(r) \/ r.status_code # HTTP_OK

\* the delay growing with the attempt
retry_delay_backoff(n) == 3 * (n + 1)

\* time.sleep(3) after attempt n + 1 of the retry loop
retry_delay(n) == 3

\* the end of get_version_json_data, after the retry loop
get_version_json_data_return(r) ==
    IF r = None THEN [exc |-> CheckBuildException, text |-> None]
    ELSE IF r.status_code # HTTP_OK THEN [exc |-> CheckBuildException, text |-> None]
    ELSE [exc |-> NoExc, text |-> r.text]

----------------------------------------------------------------------------
(* BuildQualityChecker: determine_build_quality *)

\* every exception handled by the CheckBuildException clause
except_status_check_error(exc, st) == CHECK_BUILD_ERROR

\* The two except clauses: a CheckBuildException sets status to
\* CHECK_BUILD_ERROR, any other Exception is logged and leaves status as
\* it was.
except_status(exc, st) ==
    IF exc = CheckBuildException THEN CHECK_BUILD_ERROR ELSE st

Outcome(exc, st) == [exc |-> exc, status |-> st]

\* An exception raised inside the try block during the current check: the
\* matching except clause runs and the method returns status.
Raise(exc) ==
    /\ status' = except_status(exc, status)
    /\ pc' = "done"
    /\ outcomes' = Append(outcomes, Outcome(exc, -1))

Init ==
    /\ DefaultArgs
    /\ item_threshold \in 0..MaxThreshold
    /\ num_checks \in 1..MaxChecks
    /\ item_totals = None
    /\ pc = "loop"
    /\ i = 0
    /\ status = GENERAL_ERROR
    /\ j = 0
    /\ resp = None
    /\ web_resp_text = None
    /\ outcomes = <<>>
    /\ attempts = <<>>
    /\ retry_sleeps = 0
    /\ retry_sleep_seconds = 0
    /\ check_sleeps = 0
    /\ http_calls = 0

\* for i in range(0, self.num_checks): log_check_info, then enter
\* get_version_status -> get_version_json_data
StartCheck ==
    /\ pc = "loop"
    /\ i < num_checks
    /\ i' = i + 1
    /\ j' = 0
    /\ resp' = None
    /\ web_resp_text' = None
    /\ attempts' = <<>>
    /\ retry_sleeps' = 0
    /\ retry_sleep_seconds' = 0
    /\ pc' = "fetch"
    /\ UNCHANGED <<args, item_threshold, num_checks, item_totals, status, outcomes,
                   check_sleeps, http_calls>>

\* One iteration of the retry loop whose requests.get raises: the
\* AttributeError of make_versions_api_call leaves get_version_json_data
\* and get_version_status and reaches the handlers.
AttemptRaises ==
    /\ pc = "fetch"
    /\ j < REQUEST_RETRIES
    /\ \E o \in Transport :
        LET r == make_versions_api_call(o)
        IN  /\ r.exc # NoExc
            /\ http_calls' = http_calls + 1
            /\ attempts' = Append(attempts, NoResponse)
            /\ Raise(r.exc)
    /\ UNCHANGED <<args, item_threshold, num_checks, item_totals, i, j, resp,
                   web_resp_text, retry_sleeps, retry_sleep_seconds, check_sleeps>>

\* One iteration of the retry loop that gets a response: sleep 3 seconds
\* and go on, or break.
AttemptReturns ==
    /\ pc = "fetch"
    /\ j < REQUEST_RETRIES
    /\ \E o \in Transport :
        LET r == make_versions_api_call(o)
        IN  /\ r.exc = NoExc
            /\ http_calls' = http_calls + 1
            /\ attempts' = Append(attempts, r.resp.status_code)
            /\ resp' = r.resp
            /\ IF needs_retry(r.resp)
               THEN /\ retry_sleeps' = retry_sleeps + 1
                    /\ retry_sleep_seconds' = retry_sleep_seconds + retry_delay(j)
                    /\ j' = j + 1
                    /\ pc' = IF j + 1 < REQUEST_RETRIES THEN "fetch" ELSE "fetched"
               ELSE /\ retry_sleeps' = retry_sleeps
                    /\ retry_sleep_seconds' = retry_sleep_seconds
                    /\ j' = j
                    /\ pc' = "fetched"
    /\ UNCHANGED <<args, item_threshold, num_checks, item_totals, i, status,
                   web_resp_text, outcomes, check_sleeps>>

\* After the retry loop: raise CheckBuildException ...
FetchFails ==
    /\ pc = "fetched"
    /\ LET r == get_version_json_data_return(resp)
       IN  /\ r.exc # NoExc
           /\ Raise(r.exc)
    /\ UNCHANGED <<args, item_threshold, num_checks, item_totals, i, j, resp,
                   web_resp_text, attempts, retry_sleeps, retry_sleep_seconds, check_sleeps,
                   http_calls>>

\* ... or return resp.text to get_version_status
FetchReturns ==
    /\ pc = "fetched"
    /\ LET r == get_version_json_data_return(resp)
       IN  /\ r.exc = NoExc
           /\ web_resp_text' = r.text
    /\ pc' = "evaluate"
    /\ UNCHANGED <<args, item_threshold, num_checks, item_totals, i, status, j, resp,
                   outcomes, attempts, retry_sleeps, retry_sleep_seconds, check_sleeps,
                   http_calls>>

\* calculate_item_totals raises (json.loads or a missing key)
ParseFails ==
    /\ pc = "evaluate"
    /\ LET t == calculate_item_totals(web_resp_text)
       IN  /\ t.exc # NoExc
           /\ Raise(t.exc)
    /\ UNCHANGED <<args, item_threshold, num_checks, item_totals, i, j, resp,
                   web_resp_text, attempts, retry_sleeps, retry_sleep_seconds, check_sleeps,
                   http_calls>>

\* going on after every status that is not an error code
status_is_success_below_errors(st) == st < GENERAL_ERROR

\* if status == self.SUCCESS: sleep and go on; else: break
status_is_success(st) == st = SUCCESS

\* The rest of get_version_status and of the loop body: set item_totals,
\* calculate the status, then sleep and loop, or break and return.
Evaluate ==
    /\ pc = "evaluate"
    /\ LET t == calculate_item_totals(web_resp_text)
           s == calculate_status(t.totals, item_threshold)
       IN  /\ t.exc = NoExc
           /\ item_totals' = t.totals
           /\ status' = s
           /\ outcomes' = Append(outcomes, Outcome(NoExc, s))
           /\ IF status_is_success(s)
              THEN /\ check_sleeps' = check_sleeps + 1
                   /\ pc' = "loop"
              ELSE /\ check_sleeps' = check_sleeps
                   /\ pc' = "done"
    /\ UNCHANGED <<args, item_threshold, num_checks, i, j, resp, web_resp_text,
                   attempts, retry_sleeps, retry_sleep_seconds, http_calls>>

\* The loop is exhausted: return status
Return ==
    /\ pc = "loop"
    /\ i >= num_checks
    /\ pc' = "done"
    /\ UNCHANGED <<args, item_threshold, num_checks, item_totals, i, status, j, resp,
                   web_resp_text, outcomes, attempts, retry_sleeps, retry_sleep_seconds,
                   check_sleeps, http_calls>>

Next ==
    \/ StartCheck
    \/ AttemptRaises
    \/ AttemptReturns
    \/ FetchFails
    \/ FetchReturns
    \/ ParseFails
    \/ Evaluate
    \/ Return

Spec == Init /\ [][Next]_vars

TypeOK ==
    /\ item_threshold \in 0..MaxThreshold
    /\ num_checks \in 1..MaxChecks
    /\ pc \in {"loop", "fetch", "fetched", "evaluate", "done"}
    /\ i \in 0..num_checks
    /\ j \in 0..REQUEST_RETRIES
    /\ status \in {SUCCESS, NEW_ITEMS, REACTIVATED_ITEMS,
                   NEW_AND_REACTIVATED_ITEMS, GENERAL_ERROR, CHECK_BUILD_ERROR}

----------------------------------------------------------------------------
(* calculate_status on its own: every item_totals with the four totals in  *)
(* 0..MaxTotal, every item_threshold in 0..2*MaxTotal.                     *)

TotalsRange ==
    [new : 0..MaxTotal, reactivated : 0..MaxTotal,
     repeated : 0..MaxTotal, resolved : 0..MaxTotal]

StatusInit ==
    /\ DefaultArgs
    /\ item_threshold \in 0..(2 * MaxTotal)
    /\ item_totals \in TotalsRange
    /\ pc = "calculate_status"
    /\ status = GENERAL_ERROR
    /\ num_checks = 1
    /\ i = 1
    /\ j = 0
    /\ resp = None
    /\ web_resp_text = None
    /\ outcomes = <<>>
    /\ attempts = <<>>
    /\ retry_sleeps = 0
    /\ retry_sleep_seconds = 0
    /\ check_sleeps = 0
    /\ http_calls = 0

\* status = self.calculate_status()
CalculateStatus ==
    /\ pc = "calculate_status"
    /\ status' = calculate_status(item_totals, item_threshold)
    /\ pc' = "calculated"
    /\ UNCHANGED <<args, item_threshold, num_checks, item_totals, i, j, resp,
                   web_resp_text, outcomes, attempts, retry_sleeps, retry_sleep_seconds,
                   check_sleeps, http_calls>>

StatusNext == CalculateStatus

StatusSpec == StatusInit /\ [][StatusNext]_vars

----------------------------------------------------------------------------
(* calculate_item_totals on its own: every body whose eight error and      *)
(* critical counts are in Counts, without or with counts of the other      *)
(* levels, and the malformed bodies.                                       *)

\* item_stats of one category as the Versions API sends them, all levels
AllLevels(e, c, w) ==
    [error |-> e, critical |-> c, warning |-> w, info |-> w + 1, debug |-> w + 2]

TotalsTexts ==
    { Json(ItemStatsDoc([new |-> Stats(ne, nc), reactivated |-> Stats(re, rc),
                         repeated |-> Stats(pe, pc_), resolved |-> Stats(se, sc)])) :
        ne \in Counts, nc \in Counts, re \in Counts, rc \in Counts,
        pe \in Counts, pc_ \in Counts, se \in Counts, sc \in Counts }
    \cup
    { Json(ItemStatsDoc([new |-> AllLevels(ne, nc, w),
                         reactivated |-> AllLevels(re, rc, w),
                         repeated |-> AllLevels(pe, pc_, w),
                         resolved |-> AllLevels(se, sc, w)])) :
        ne \in Counts, nc \in Counts, re \in Counts, rc \in Counts,
        pe \in Counts, pc_ \in Counts, se \in Counts, sc \in Counts,
        w \in Counts }
    \cup MalformedTexts

TotalsInit ==
    /\ DefaultArgs
    /\ item_threshold = 0
    /\ num_checks = 1
    /\ web_resp_text \in TotalsTexts
    /\ pc = "calculate_item_totals"
    /\ item_totals = None
    /\ i = 1
    /\ status = GENERAL_ERROR
    /\ j = 0
    /\ resp = None
    /\ outcomes = <<>>
    /\ attempts = <<>>
    /\ retry_sleeps = 0
    /\ retry_sleep_seconds = 0
    /\ check_sleeps = 0
    /\ http_calls = 0

\* self.calculate_item_totals(web_resp_text)
CalculateItemTotals ==
    /\ pc = "calculate_item_totals"
    /\ LET t == calculate_item_totals(web_resp_text)
       IN  IF t.exc = NoExc
           THEN item_totals' = t.totals /\ pc' = "totals_set"
           ELSE item_totals' = item_totals /\ pc' = "totals_raised"
    /\ UNCHANGED <<args, item_threshold, num_checks, i, status, j, resp,
                   web_resp_text, outcomes, attempts, retry_sleeps,
                   retry_sleep_seconds, check_sleeps, http_calls>>

TotalsNext == CalculateItemTotals

TotalsSpec == TotalsInit /\ [][TotalsNext]_vars

----------------------------------------------------------------------------
(* validate_input on its own.  One string argument ranges over a rich set  *)
(* (lengths around its limit, separators, a character that is not         *)
(* alphanumeric at either end) while the other two range over a few valid  *)
(* and invalid values; the three numbers range around their limits.        *)

LensAround(n) == (n - MaxDelta)..(n + MaxDelta)

WithChar(s, p, c) == [s EXCEPT ![p] = c]

TokenInputs ==
    { Fill(n, c) : n \in {0} \cup LensAround(ACCESS_TOKEN_LEN), c \in {"a", "7"} }
    \cup
    UNION { { WithChar(Fill(n, "a"), p, c) : p \in {1, n}, c \in {"#", "-", "Z"} } :
            n \in LensAround(ACCESS_TOKEN_LEN) }

FewTokens ==
    { DefaultToken, Fill(ACCESS_TOKEN_LEN - 1, "a"),
      WithChar(DefaultToken, 1, "#") }

CodeVersionInputs ==
    { Fill(n, c) : n \in {0} \cup LensAround(MAX_STR_LEN), c \in {"a", "#"} }

FewCodeVersions == { DefaultCodeVersion, Fill(MAX_STR_LEN + 1, "a") }

\* m separators followed by n alphanumeric characters
EnvironmentInputs ==
    { Fill(m, c) \o Fill(n, "a") :
        m \in 0..MaxDelta, c \in SeparatorChars,
        n \in {0, 1} \cup LensAround(MAX_STR_LEN) }
    \cup
    { <<"a", "-", "7", ".", "Z", "_", "a">>, <<"a", "#", "7">>,
      <<"#">> \o Fill(MAX_STR_LEN, "a") }

FewEnvironments ==
    { DefaultEnvironment, <<"a", "#", "7">>,
      <<".">> \o Fill(MAX_STR_LEN, "a"), Fill(MAX_STR_LEN + 1, "a") }

ValidateInit ==
    /\ \/ /\ access_token \in TokenInputs
          /\ code_version \in FewCodeVersions
          /\ environment \in FewEnvironments
       \/ /\ access_token \in FewTokens
          /\ code_version \in CodeVersionInputs
          /\ environment \in FewEnvironments
       \/ /\ access_token \in FewTokens
          /\ code_version \in FewCodeVersions
          /\ environment \in EnvironmentInputs
    /\ item_threshold \in (0 - MaxDelta)..MaxDelta
    /\ num_checks \in LensAround(1)
    /\ check_seconds \in LensAround(1)
    /\ validation_error = NoExc
    /\ pc = "validate_input"
    /\ item_totals = None
    /\ i = 0
    /\ status = GENERAL_ERROR
    /\ j = 0
    /\ resp = None
    /\ web_resp_text = None
    /\ outcomes = <<>>
    /\ attempts = <<>>
    /\ retry_sleeps = 0
    /\ retry_sleep_seconds = 0
    /\ check_sleeps = 0
    /\ http_calls = 0

\* CheckBuildStatus.validate_input(access_token, ..., check_seconds)
ValidateInput ==
    /\ pc = "validate_input"
    /\ validation_error' =
          validate_input(access_token, code_version, environment,
                         item_threshold, num_checks, check_seconds)
    /\ pc' = "validated"
    /\ UNCHANGED <<access_token, code_version, environment, check_seconds,
                   item_threshold, num_checks, item_totals, i, status, j, resp,
                   web_resp_text, outcomes, attempts, retry_sleeps,
                   retry_sleep_seconds, check_sleeps, http_calls>>

ValidateNext == ValidateInput

ValidateSpec == ValidateInit /\ [][ValidateNext]_vars

----------------------------------------------------------------------------
(* The whole program (__main__): the command-line values, the constructor  *)
(* with validate_input, then determine_build_quality.  The variables of    *)
(* the fields hold the command-line values from the start; __init__ copies *)
(* them unchanged.                                                         *)

MainInit ==
    /\ access_token \in FewTokens
    /\ code_version \in FewCodeVersions
    /\ environment \in FewEnvironments
    /\ item_threshold \in (0 - 1)..0
    /\ num_checks \in 0..MaxMainChecks
    /\ check_seconds \in 0..1
    /\ validation_error = NoExc
    /\ pc = "main"
    /\ item_totals = None
    /\ i = 0
    /\ status = GENERAL_ERROR
    /\ j = 0
    /\ resp = None
    /\ web_resp_text = None
    /\ outcomes = <<>>
    /\ attempts = <<>>
    /\ retry_sleeps = 0
    /\ retry_sleep_seconds = 0
    /\ check_sleeps = 0
    /\ http_calls = 0

\* does __init__ go on after validate_input returned this
constructed_always(err) == TRUE

\* the ValueError of validate_input leaves __init__ and ends the process
constructed(err) == err = NoExc

\* check = CheckBuildStatus(...): validate_input first; when it raises the
\* process ends with the ValueError ("raised"), else the fields are set and
\* __main__ calls determine_build_quality.
Construct ==
    /\ pc = "main"
    /\ validation_error' =
          validate_input(access_token, code_version, environment,
                         item_threshold, num_checks, check_seconds)
    /\ pc' = IF constructed(validation_error') THEN "loop" ELSE "raised"
    /\ UNCHANGED <<access_token, code_version, environment, check_seconds,
                   item_threshold, num_checks, item_totals, i, status, j, resp,
                   web_resp_text, outcomes, attempts, retry_sleeps,
                   retry_sleep_seconds, check_sleeps, http_calls>>

MainNext ==
    \/ Construct
    \/ Next

MainSpec == MainInit /\ [][MainNext]_vars

----------------------------------------------------------------------------
(* Vocabulary of the claims *)

Returned == pc = "done"

Last(sq) == sq[Len(sq)]

\* how the last started check ended, once it has ended
LastEnded == Len(outcomes) = i /\ i > 0

Clean == Outcome(NoExc, SUCCESS)

ParseExcs == {JSONDecodeError, KeyError}

AllNon200Responses ==
    \A n \in 1..Len(attempts) : attempts[n] \notin {NoResponse, HTTP_OK}

----------------------------------------------------------------------------
(* Claims *)

\* C1: determine_build_quality returns SUCCESS (0) only if all num_checks
\* checks were executed and each one completed with a 200 response that
\* evaluated to SUCCESS; it never returns 0 when the last check it ran
\* ended in an error.
C1_SuccessOnlyIfEveryCheckClean ==
    (Returned /\ status = SUCCESS) =>
        /\ Len(outcomes) = num_checks
        /\ \A k \in 1..Len(outcomes) : outcomes[k] = Clean

\* C2: whenever an exception other than CheckBuildException (here the
\* AttributeError of a failed request, which is neither a request error
\* nor a parse error) is raised during check i, for any i, the method
\* returns GENERAL_ERROR (100).
C2_OtherErrorReturnsGeneralError ==
    (Returned /\ LastEnded /\ Last(outcomes).exc = AttributeError) =>
        status = GENERAL_ERROR

C4_NetworkFailureIsRetried ==
    (Returned /\ attempts # <<>> /\ Last(attempts) = NoResponse) =>
        /\ Len(attempts) = 3
        /\ Last(outcomes).exc = CheckBuildException
        /\ status = CHECK_BUILD_ERROR

\* C5: if every HTTP attempt of a check returns a response with a status
\* code other than 200, exactly 3 attempts are made, then the fetch raises
\* CheckBuildException; determine_build_quality returns CHECK_ERROR (101)
\* and performs no further check and no further HTTP attempt.
C5_Non200ExhaustsThreeAttempts ==
    /\ (pc = "fetch" /\ AllNon200Responses) => Len(attempts) < 3
    /\ (Len(attempts) = 3 /\ AllNon200Responses) =>
          /\ pc \in {"fetched", "done"}
          /\ pc = "fetched" => (ENABLED FetchFails /\ ~ENABLED FetchReturns)
    /\ (pc = "fetched" /\ AllNon200Responses) => Len(attempts) = 3
    /\ (LastEnded /\ AllNon200Responses /\ attempts # <<>>) =>
          /\ Len(attempts) = 3
          /\ Last(outcomes).exc = CheckBuildException
          /\ Returned
          /\ status = CHECK_BUILD_ERROR
          /\ ~ENABLED Next
    /\ (LastEnded /\ Last(outcomes).exc = CheckBuildException) =>
          (Len(attempts) = 3 /\ AllNon200Responses)

C5_Witness ==
    /\ Returned
    /\ i = 2
    /\ attempts = <<503, 204, 503>>
    /\ status = CHECK_BUILD_ERROR

\* C6: within one fetch, if the first k attempts (0 <= k <= 2) return
\* non-200 responses and attempt k+1 returns 200, exactly k+1 attempts are
\* made, exactly k delays of 3 seconds occur, no attempt follows the first
\* 200, and the body of that 200 response is returned.
C6_FirstOkResponseEndsFetch ==
    \A n \in 1..Len(attempts) :
        attempts[n] = HTTP_OK =>
            /\ n = Len(attempts)
            /\ n <= 3
            /\ \A m \in 1..(n - 1) : attempts[m] \notin {NoResponse, HTTP_OK}
            /\ retry_sleeps = n - 1
            /\ pc # "fetch"
            /\ ~ENABLED AttemptReturns /\ ~ENABLED AttemptRaises
            /\ resp.status_code = HTTP_OK
            /\ pc = "fetched" => (ENABLED FetchReturns /\ ~ENABLED FetchFails)
            /\ pc # "fetched" => web_resp_text = resp.text

C6_Witness ==
    /\ pc = "evaluate"
    /\ attempts = <<503, 204, HTTP_OK>>
    /\ retry_sleeps = 2
    /\ web_resp_text \in WellFormedTexts

\* C7: if checks 1..k-1 evaluate to SUCCESS and check k is the first to
\* evaluate to a status s in {1,2,3}, the loop runs exactly k checks,
\* exactly k-1 inter-check sleeps occur (none after check k), no check
\* after k is started, and determine_build_quality returns s.
C7_FirstFailureEndsLoop ==
    \A k \in 1..Len(outcomes) :
        (/\ outcomes[k].exc = NoExc
         /\ outcomes[k].status \in {NEW_ITEMS, REACTIVATED_ITEMS,
                                    NEW_AND_REACTIVATED_ITEMS}) =>
            /\ \A m \in 1..(k - 1) : outcomes[m] = Clean
            /\ Len(outcomes) = k
            /\ i = k
            /\ check_sleeps = k - 1
            /\ Returned
            /\ status = outcomes[k].status
            /\ ~ENABLED Next

C7_Witness ==
    /\ Returned
    /\ Len(outcomes) = 3
    /\ outcomes[3] = Outcome(NoExc, NEW_ITEMS)
    /\ check_sleeps = 2

\* C8: the inter-check sleep occurs only if more checks remain: the number
\* of inter-check sleeps of a run is at most num_checks - 1, and no sleep
\* follows the last check.
C8_NoSleepAfterLastCheck ==
    check_sleeps <= num_checks - 1

\* C9: for all non-negative new, reactivated and item_threshold,
\* calculate_status returns (1 if new+reactivated > item_threshold and
\* new > 0 else 0) + (2 if new+reactivated > item_threshold and
\* reactivated > 0 else 0); the result is one of 0, 1, 2, 3 and does not
\* depend on repeated or resolved.
C9_StatusIsSumOfFlags ==
    pc = "calculated" =>
        LET combined == item_totals.new + item_totals.reactivated
            new_flag == IF combined > item_threshold /\ item_totals.new > 0
                        THEN 1 ELSE 0
            reactivated_flag ==
                IF combined > item_threshold /\ item_totals.reactivated > 0
                THEN 2 ELSE 0
        IN  /\ status = new_flag + reactivated_flag
            /\ status \in {0, 1, 2, 3}
            /\ \A t \in TotalsRange :
                  (t.new = item_totals.new
                     /\ t.reactivated = item_totals.reactivated) =>
                  calculate_status(t, item_threshold) = status

C9_Witness ==
    /\ pc = "calculated"
    /\ item_totals.new = 1
    /\ item_totals.reactivated = 2
    /\ item_totals.repeated = 3
    /\ item_threshold = 2
    /\ status = NEW_AND_REACTIVATED_ITEMS

\* C10: for all non-negative new, reactivated and item_threshold,
\* calculate_status returns SUCCESS (0) if and only if
\* new + reactivated <= item_threshold.
C10_SuccessIffWithinThreshold ==
    pc = "calculated" =>
        (status = SUCCESS <=>
            item_totals.new + item_totals.reactivated <= item_threshold)

C10_Witness ==
    /\ pc = "calculated"
    /\ item_totals.new = 1
    /\ item_totals.reactivated = 1
    /\ item_threshold = 2
    /\ status = SUCCESS

\* C11: the value returned is one of 0, 1, 2, 3, 100, 101, and the two
\* error codes are returned exactly when an error ended the run: 101 only
\* for a request or parse error, 100 for every error of another kind.
\* (Which of the two codes a parse error gets is the subject of C3 and is
\* left open here.)
C11_ErrorCodeIffErrorEndedRun ==
    Returned =>
        LET ended_by == Last(outcomes).exc
        IN  /\ status \in {0, 1, 2, 3, 100, 101}
            /\ (status \in {GENERAL_ERROR, CHECK_BUILD_ERROR}) <=> (ended_by # NoExc)
            /\ status = CHECK_BUILD_ERROR =>
                  ended_by \in {CheckBuildException} \cup ParseExcs
            /\ ended_by \notin {NoExc, CheckBuildException} \cup ParseExcs =>
                  status = GENERAL_ERROR

----------------------------------------------------------------------------
(* The rules of the six configuration values, as the specification states  *)
(* them                                                                    *)

AllAlnum(s) == Len(s) > 0 /\ \A k \in 1..Len(s) : s[k] \in AlnumChars

TokenRule(s) == Len(s) = 32 /\ AllAlnum(s)

CodeVersionRule(s) == Len(s) <= 200

Stripped(s) == SelectSeq(s, LAMBDA x : x \notin SeparatorChars)

\* the remainder is alphanumeric and the ORIGINAL string has length <= 200
EnvironmentRule(s) == AllAlnum(Stripped(s)) /\ Len(s) <= 200

FirstViolatedRule ==
    IF ~TokenRule(access_token) THEN "access_token"
    ELSE IF ~CodeVersionRule(code_version) THEN "code_version"
    ELSE IF ~EnvironmentRule(environment) THEN "environment"
    ELSE IF ~(item_threshold >= 0) THEN "item_threshold"
    ELSE IF ~(num_checks >= 1) THEN "num_checks"
    ELSE IF ~(check_seconds >= 1) THEN "check_seconds"
    ELSE NoExc

OthersThanTokenValid ==
    /\ CodeVersionRule(code_version)
    /\ EnvironmentRule(environment)
    /\ item_threshold >= 0
    /\ num_checks >= 1
    /\ check_seconds >= 1

OthersThanEnvironmentValid ==
    /\ TokenRule(access_token)
    /\ CodeVersionRule(code_version)
    /\ item_threshold >= 0
    /\ num_checks >= 1
    /\ check_seconds >= 1

\* C12: validation precedes all network activity: if any of the six values
\* violates its rule, construction fails with a raised validation error and
\* no HTTP request is ever issued in that run; every HTTP request is issued
\* by a checker whose six values passed validate_input.
C12_NoRequestUnlessRulesHold ==
    /\ FirstViolatedRule # NoExc =>
          /\ pc \in {"main", "raised"}
          /\ http_calls = 0
          /\ pc = "raised" => validation_error # NoExc
    /\ http_calls > 0 =>
          /\ validation_error = NoExc
          /\ validate_input(access_token, code_version, environment,
                            item_threshold, num_checks, check_seconds) = NoExc

\* C13: validate_input accepts an environment if and only if the string
\* that remains after stripping '.', '_' and '-' is alphanumeric and the
\* ORIGINAL string has length <= 200 (the other five values being valid).
C13_EnvironmentAcceptedIffRule ==
    (pc = "validated" /\ OthersThanEnvironmentValid) =>
        (validation_error = NoExc <=> EnvironmentRule(environment))

C15_TotalsAreErrorPlusCritical ==
    /\ (pc # "calculate_item_totals" /\ web_resp_text \notin MalformedTexts) =>
          pc = "totals_set"
    /\ pc = "totals_set" =>
          LET item_stats == web_resp_text.doc.result.item_stats
          IN  \A k \in 1..4 :
                  item_totals[Categories[k]] =
                      item_stats[Categories[k]].error
                      + item_stats[Categories[k]].critical

C15_Witness ==
    /\ pc = "totals_set"
    /\ Has(web_resp_text.doc.result.item_stats.new, "warning")
    /\ web_resp_text.doc.result.item_stats.new.warning = 1
    /\ web_resp_text.doc.result.item_stats.resolved.critical = 1
    /\ item_totals = [new |-> 2, reactivated |-> 0, repeated |-> 1, resolved |-> 1]

\* C16: item totals are recomputed on every check: after check i completes,
\* item_totals is what check i's body gives; and the status returned is
\* determined by the last executed iteration only (its totals or its
\* error), never by the status of an earlier iteration.
C16_StatusFromLastIterationOnly ==
    /\ (LastEnded /\ Last(outcomes).exc = NoExc) =>
          /\ item_totals = calculate_item_totals(web_resp_text).totals
          /\ status = calculate_status(item_totals, item_threshold)
    /\ (Returned /\ i > 1 /\ Last(outcomes).exc # NoExc) =>
          status # outcomes[i - 1].status

\* C17: validate_input fails on the first violated constraint in the order
\* access_token, code_version, environment, item_threshold, num_checks,
\* check_seconds, naming that field; with all six valid it raises nothing.
C17_FirstViolatedRuleIsNamed ==
    pc = "validated" => validation_error = FirstViolatedRule

\* what is left to do, in steps: 7 per check not yet started, and within a
\* check the attempts left, the end of the fetch, the evaluation
StepsLeft ==
    IF pc = "done" THEN 0
    ELSE (num_checks - i) * 7
         + (CASE pc = "loop" -> 1
              [] pc = "evaluate" -> 2
              [] pc = "fetched" -> 3
              [] pc = "fetch" -> 4 + (3 - j))

\* A step is possible at every position before the return.  At "evaluate"
\* the guards of ParseFails and Evaluate are the two outcomes of
\* calculate_item_totals, written out here.
CanStep ==
    \/ pc = "loop" /\ ENABLED (StartCheck \/ Return)
    \/ pc = "fetch" /\ ENABLED (AttemptRaises \/ AttemptReturns)
    \/ pc = "fetched" /\ ENABLED (FetchFails \/ FetchReturns)
    \/ pc = "evaluate" /\
         LET t == calculate_item_totals(web_resp_text)
         IN  \/ t.exc \in ParseExcs
             \/ /\ t.exc = NoExc
                /\ calculate_status(t.totals, item_threshold)
                      \in SUCCESS..NEW_AND_REACTIVATED_ITEMS

\* C18: determine_build_quality always terminates: a run executes at most
\* num_checks check iterations and at most 3 * num_checks HTTP attempts,
\* and then returns a status (every step lowers StepsLeft, and a step is
\* possible until the method has returned).
C18_TerminatesWithinBounds ==
    /\ [](/\ i <= num_checks
          /\ Len(outcomes) <= num_checks
          /\ http_calls <= 3 * num_checks
          /\ StepsLeft >= 0
          /\ Returned \/ CanStep)
    /\ [][StepsLeft' < StepsLeft]_vars

C18_Witness ==
    /\ Returned
    /\ num_checks = 3
    /\ i = 3
    /\ http_calls = 9

Non200Attempts ==
    { n \in 1..Len(attempts) : attempts[n] \notin {NoResponse, HTTP_OK} }

\* C19: every attempt that returns a non-200 response is followed by one
\* fixed 3-second sleep, the third attempt included: the number of retry
\* delays of a fetch equals its number of non-200 attempts, a fetch that
\* exhausts its retries has slept 3 times before it raises, and the delay
\* never grows.
C19_OneFixedSleepPerNon200Attempt ==
    /\ retry_sleeps = Cardinality(Non200Attempts)
    /\ retry_sleep_seconds = 3 * retry_sleeps
    /\ (pc = "fetched" /\ resp.status_code # HTTP_OK) => retry_sleeps = 3
    /\ (LastEnded /\ Last(outcomes).exc = CheckBuildException) =>
          (retry_sleeps = 3 /\ retry_sleep_seconds = 9)

C19_Witness ==
    /\ Returned
    /\ Last(outcomes).exc = CheckBuildException
    /\ attempts = <<204, 503, 204>>
    /\ retry_sleeps = 3

====
